---- MODULE Spec2Model ----
(***************************************************************************)
(* A model of the rank index of progress-report-bot (src/src/rank.rs) and  *)
(* of the commands that load, edit and save it (src/src/commands.rs).      *)
(*                                                                         *)
(* A RankList is a record of its four fields.  rank_set and                *)
(* pending_removals are HashSet<RankHash>: sets of ranks whose elements    *)
(* are equal when their rank_id is equal.  rank_order is a BTreeSet<Rank>: *)
(* a sequence of ranks in the order the set iterates, whose elements are   *)
(* equal when their minimum_word_count is equal.  The rank_table of the    *)
(* database is a set of rows.                                              *)
(***************************************************************************)
EXTENDS Integers, Sequences, FiniteSets, TLC

\* ------------------------------------------------------------- bounds

\* The largest minimum_word_count a caller passes.
MaxCount == 3
\* The longest slice a RankList is built from.
MaxBatch == 3
\* The width of the word-count integers: u32 is modelled as CountBits bits
\* unsigned, i32 as CountBits bits two's complement.
CountBits == 5
\* The longest text parsed as a WordCountArgument.
MaxText == 4

Counts == 0..MaxCount

\* ------------------------------------------------------ integer casts

U32Size == 2^CountBits
I32Max == 2^(CountBits - 1) - 1

\* `x as i32` of a u32 (rank.rs:320): the same bits read as two's complement.
as_i32(x) == IF x > I32Max THEN x - U32Size ELSE x

\* `x as u32` of an i32 (rank.rs:125).
as_u32(x) == IF x < 0 THEN x + U32Size ELSE x

\* ------------------------------------------------------------- values

\* Option<GuildId>::None; a GuildId itself is never zero.
None == 0

RankId(guild_id, role_id) == [guild_id |-> guild_id, role_id |-> role_id]

\* Rank::new
Rank(guild_id, role_id, minimum_word_count) ==
    [rank_id |-> RankId(guild_id, role_id), minimum_word_count |-> minimum_word_count]

\* The identities the callers use: three roles of guild 1, one role of guild 2
\* that has the role id of a role of guild 1.
RankIds == {RankId(1, 1), RankId(1, 2), RankId(1, 3), RankId(2, 1)}
Guilds == {id.guild_id : id \in RankIds}
Ranks == [rank_id : RankIds, minimum_word_count : Counts]

\* The identities used where the database takes part.
StoreRankIds == {RankId(1, 1), RankId(1, 2), RankId(2, 1)}
\* The word counts used there: small ones and u32::MAX.
StoreCounts == {0, 1, U32Size - 1}
StoreRanks == [rank_id : StoreRankIds, minimum_word_count : StoreCounts]

\* The place of a rank in a record that holds none.
NoRank == Rank(None, 0, 0)

\* impl PartialEq for Rank: equal when the word counts are.
RankEq(a, b) == a.minimum_word_count = b.minimum_word_count

\* impl Ord for Rank: ordered by the word count.
RankLt(a, b) == a.minimum_word_count < b.minimum_word_count

\* impl PartialEq for RankHash: equal when the rank ids are.
RankHashEq(a, b) == a.rank_id = b.rank_id

\* -------------------------------------------------------- DiscordRank

\* A role (RoleLike): its id and the id of its guild.
Role(id, guild_id) == [id |-> id, guild_id |-> guild_id]

\* A guild (GuildLike): its id and its roles, one for a role id at most.
Guild(id, role_ids) == [id |-> id, roles |-> {Role(role_id, id) : role_id \in role_ids}]

\* struct DiscordRank { role, minimum_word_count }
DiscordRank(role, minimum_word_count) ==
    [role |-> role, minimum_word_count |-> minimum_word_count]

\* Option: Some(value) and None.
Some(value) == [some |-> TRUE, value |-> value]
Nothing == [some |-> FALSE]

\* GuildLike::role
role_of(get_role_object, role_id) ==
    IF \E role \in get_role_object.roles : role.id = role_id
    THEN Some(CHOOSE role \in get_role_object.roles : role.id = role_id)
    ELSE Nothing

\* A conversion that takes a role of the guild whatever its id.
to_rank_any_role(self, get_role_object) ==
    IF get_role_object.roles # {}
    THEN Some(DiscordRank(CHOOSE role \in get_role_object.roles : TRUE, self.minimum_word_count))
    ELSE Nothing

\* Rank::to_rank
to_rank(self, get_role_object) ==
    IF role_of(get_role_object, self.rank_id.role_id).some
    THEN Some(DiscordRank(role_of(get_role_object, self.rank_id.role_id).value,
                          self.minimum_word_count))
    ELSE Nothing

\* impl From<DiscordRank> for Rank
from_discord_rank(value) == Rank(value.role.guild_id, value.role.id, value.minimum_word_count)

\* AddRankError::to_discord_error: the role of the rank the error carries.
to_discord_error(rank, get_role_object) ==
    IF to_rank(rank, get_role_object).some
    THEN Some(to_rank(rank, get_role_object).value.role)
    ELSE Nothing

\* -------------------------------------------------- HashSet<RankHash>

HashContains(set, rank) == \E x \in set : RankHashEq(x, rank)

HashGet(set, rank) == CHOOSE x \in set : RankHashEq(x, rank)

\* HashSet::remove and the set HashSet::take leaves.
HashRemove(set, rank) == {x \in set : ~RankHashEq(x, rank)}

\* HashSet::replace: the new value takes the place of an equal one.
HashReplace(set, rank) == HashRemove(set, rank) \cup {rank}

\* HashSet::insert: an equal value already present is kept.
HashInsert(set, rank) == IF HashContains(set, rank) THEN set ELSE set \cup {rank}

\* ---------------------------------------------------- BTreeSet<Rank>

OrderContains(order, rank) == \E i \in 1..Len(order) : RankEq(order[i], rank)

OrderGet(order, rank) == order[CHOOSE i \in 1..Len(order) : RankEq(order[i], rank)]

OrderRemove(order, rank) == SelectSeq(order, LAMBDA x : ~RankEq(x, rank))

\* BTreeSet::insert, mutated: the value goes after every value.
OrderInsertAtEnd(order, rank) ==
    IF OrderContains(order, rank) THEN order ELSE Append(order, rank)

\* BTreeSet::insert: an equal value already present is kept; otherwise the
\* value goes after the values less than it.
OrderInsert(order, rank) ==
    IF OrderContains(order, rank)
    THEN order
    ELSE LET k == Cardinality({i \in 1..Len(order) : RankLt(order[i], rank)})
         IN  SubSeq(order, 1, k) \o <<rank>> \o SubSeq(order, k + 1, Len(order))

\* ----------------------------------------------------------- RankList

RankList(guild_id, rank_set, rank_order, pending_removals) ==
    [guild_id |-> guild_id, rank_set |-> rank_set, rank_order |-> rank_order,
     pending_removals |-> pending_removals]

\* The RankList try_from makes of an empty slice.
EmptyList == RankList(None, {}, <<>>, {})

\* impl From<Rank> for RankList
from_rank(value) == RankList(value.rank_id.guild_id, {value}, <<value>>, {})

\* What a call returns with the RankList it leaves: res is "ok", "conflict"
\* (Err(RankExistsWithWordCount(ret))) or "panic".
Outcome(res, ret, self) == [res |-> res, ret |-> ret, self |-> self]

\* add_rank, mutated: a rank of any guild is taken.
guild_never_differs(self, rank) == FALSE

\* add_rank: the list has a guild id and it is not the rank's.
guild_differs(self, rank) ==
    self.guild_id # None /\ self.guild_id # rank.rank_id.guild_id

\* add_rank, mutated: the check for an equal rank is left out.
word_count_never_taken(self, rank) == FALSE

\* add_rank: rank_order has a rank equal to rank.
word_count_taken(self, rank) == OrderContains(self.rank_order, rank)

\* add_rank, mutated: the old entry of the identity stays in rank_order.
order_with_old(self, rank) == self.rank_order

\* add_rank: rank_order without the rank that rank_set has for the identity.
order_without_old(self, rank) ==
    IF HashContains(self.rank_set, rank)
    THEN OrderRemove(self.rank_order, HashGet(self.rank_set, rank))
    ELSE self.rank_order

\* add_rank, mutated: a pending removal of the identity stays.
pending_kept(self, rank) == self.pending_removals

\* add_rank: pending_removals without the identity.
pending_without(self, rank) ==
    IF HashContains(self.pending_removals, rank)
    THEN HashRemove(self.pending_removals, rank)
    ELSE self.pending_removals

\* RankList::add_rank
add_rank(self, rank) ==
    IF guild_differs(self, rank)
    THEN Outcome("panic", NoRank, self)
    ELSE
      LET s == [self EXCEPT !.guild_id = rank.rank_id.guild_id] IN
      IF word_count_taken(s, rank)
      THEN Outcome("conflict", OrderGet(s.rank_order, rank), s)
      ELSE Outcome("ok", NoRank,
                   RankList(s.guild_id, HashReplace(s.rank_set, rank),
                            OrderInsert(order_without_old(s, rank), rank),
                            pending_without(s, rank)))

\* RankList::add_ranks: add_rank for each rank from the i-th on; what add_rank
\* returns is not looked at, and its panic ends the loop.
RECURSIVE add_ranks_rest(_, _, _)
add_ranks_rest(self, ranks, i) ==
    IF i > Len(ranks) THEN Outcome("ok", NoRank, self)
    ELSE LET a == add_rank(self, ranks[i]) IN
         IF a.res = "panic" THEN a
         ELSE add_ranks_rest(a.self, ranks, i + 1)

add_ranks(self, ranks) == add_ranks_rest(self, ranks, 1)

\* The ranks of the errors add_rank returns inside add_ranks.
RECURSIVE add_ranks_errors(_, _, _)
add_ranks_errors(self, ranks, i) ==
    IF i > Len(ranks) THEN {}
    ELSE LET a == add_rank(self, ranks[i]) IN
         IF a.res = "panic" THEN {}
         ELSE (IF a.res = "conflict" THEN {a.ret} ELSE {})
                  \cup add_ranks_errors(a.self, ranks, i + 1)

\* remove_rank, mutated: the rank is read from rank_set and not taken out.
remove_rank_not_taking(self, rank) ==
    IF HashContains(self.rank_set, rank)
    THEN LET taken == HashGet(self.rank_set, rank) IN
         RankList(self.guild_id, self.rank_set,
                  OrderRemove(self.rank_order, taken),
                  HashInsert(self.pending_removals, taken))
    ELSE self

\* remove_rank, mutated: the removal is not recorded.
remove_rank_not_recording(self, rank) ==
    IF HashContains(self.rank_set, rank)
    THEN LET taken == HashGet(self.rank_set, rank) IN
         RankList(self.guild_id, HashRemove(self.rank_set, rank),
                  OrderRemove(self.rank_order, taken),
                  self.pending_removals)
    ELSE self

\* remove_rank, mutated: the rank stays in rank_order.
remove_rank_from_set_only(self, rank) ==
    IF HashContains(self.rank_set, rank)
    THEN LET taken == HashGet(self.rank_set, rank) IN
         RankList(self.guild_id, HashRemove(self.rank_set, rank),
                  self.rank_order,
                  HashInsert(self.pending_removals, taken))
    ELSE self

\* remove_rank, mutated: the argument, not the rank taken from rank_set, is
\* removed from rank_order and recorded.
remove_rank_by_argument(self, rank) ==
    IF HashContains(self.rank_set, rank)
    THEN RankList(self.guild_id, HashRemove(self.rank_set, rank),
                  OrderRemove(self.rank_order, rank),
                  HashInsert(self.pending_removals, rank))
    ELSE self

\* RankList::remove_rank
remove_rank(self, rank) ==
    IF HashContains(self.rank_set, rank)
    THEN LET taken == HashGet(self.rank_set, rank) IN
         RankList(self.guild_id, HashRemove(self.rank_set, rank),
                  OrderRemove(self.rank_order, taken),
                  HashInsert(self.pending_removals, taken))
    ELSE self

\* The loop, mutated: it stops at a rank whose word count is the one asked for.
RECURSIVE highest_rank_below(_, _, _, _)
highest_rank_below(order, i, word_count, highest) ==
    IF i > Len(order) THEN highest
    ELSE IF order[i].minimum_word_count >= word_count THEN highest
    ELSE highest_rank_below(order, i + 1, word_count, order[i])

\* The loop of get_rank_for_word_count from element i on.
RECURSIVE highest_rank(_, _, _, _)
highest_rank(order, i, word_count, highest) ==
    IF i > Len(order) THEN highest
    ELSE IF order[i].minimum_word_count > word_count THEN highest
    ELSE highest_rank(order, i + 1, word_count, order[i])

\* RankList::get_rank_for_word_count
get_rank_for_word_count(self, word_count) ==
    IF Len(self.rank_order) = 0
    THEN Outcome("panic", NoRank, self)
    ELSE Outcome("ok", highest_rank(self.rank_order, 1, word_count, self.rank_order[1]), self)

\* The loop of try_from over the elements after the first.
RECURSIVE try_from_rest(_, _, _)
try_from_rest(rank_list, value, i) ==
    IF i > Len(value) THEN Outcome("ok", NoRank, rank_list)
    ELSE LET a == add_rank(rank_list, value[i]) IN
         IF a.res = "ok" THEN try_from_rest(a.self, value, i + 1)
         ELSE Outcome(a.res, a.ret, EmptyList)

\* impl TryFrom<&[Rank]> for RankList
try_from(value) ==
    IF Len(value) > 0
    THEN try_from_rest(from_rank(value[1]), value, 2)
    ELSE Outcome("ok", NoRank, EmptyList)

\* RankList::iter
iter(self) == self.rank_order

\* --------------------------------------------------------- rank_table

\* A record of rank_table (DbRankId).  The ids are stored as they are: the
\* casts between u64 and i64 map distinct ids to distinct keys and back.
DbRankId(guild_id, role_id, minimum_word_count) ==
    [guild_id |-> guild_id, role_id |-> role_id, minimum_word_count |-> minimum_word_count]

\* A conversion that takes the role id for the guild id and the guild id for
\* the role id.
from_db_swapped(value) == Rank(value.role_id, value.guild_id, as_u32(value.minimum_word_count))

\* impl From<&DbRankId> for Rank
from_db(value) == Rank(value.guild_id, value.role_id, as_u32(value.minimum_word_count))

\* A query without its WHERE clause.
select_all(table, guild_id) == table

\* SELECT * FROM rank_table WHERE guild_id = $1
select(table, guild_id) == {row \in table : row.guild_id = guild_id}

\* The word count save binds to the INSERT.
bound_count(rank) == as_i32(rank.minimum_word_count)

\* An INSERT with ON CONFLICT DO NOTHING.
upsert_do_nothing(table, rank) ==
    IF \E row \in table : row.guild_id = rank.rank_id.guild_id /\ row.role_id = rank.rank_id.role_id
    THEN table
    ELSE table \cup {DbRankId(rank.rank_id.guild_id, rank.rank_id.role_id, as_i32(rank.minimum_word_count))}

\* INSERT ... ON CONFLICT (guild_id, role_id) DO UPDATE SET minimum_word_count
upsert(table, rank) ==
    {row \in table : ~(row.guild_id = rank.rank_id.guild_id /\ row.role_id = rank.rank_id.role_id)}
        \cup {DbRankId(rank.rank_id.guild_id, rank.rank_id.role_id, bound_count(rank))}

\* A DELETE that matches no row.
delete_nothing(table, rank) == table

\* DELETE FROM rank_table WHERE guild_id = $1 AND role_id = $2
delete(table, rank) ==
    {row \in table : ~(row.guild_id = rank.rank_id.guild_id /\ row.role_id = rank.rank_id.role_id)}

\* The orders in which a query may return a set of rows.
RowOrders(rows) ==
    {s \in [1..Cardinality(rows) -> rows] : \A i, j \in 1..Cardinality(rows) : s[i] = s[j] => i = j}

\* ------------------------------------------------------ word_count.rs

\* enum WordCountArgument { Relative(i32), Total(u32) }
Relative(x) == [kind |-> "Relative", value |-> x]
Total(x) == [kind |-> "Total", value |-> x]

\* The values of u32 and of i32.
U32 == 0..(U32Size - 1)
I32 == (-I32Max - 1)..I32Max

\* The result of an i32 operation that overflowed, without overflow checks.
wrapping_i32(x) == ((x + I32Max + 1) % U32Size) - I32Max - 1

\* The builds: with overflow checks (the dev profile) and without (release).
Builds == {"debug", "release"}

\* What a function of word_count.rs does: returns (res "ok"), returns an error
\* (res "format_error") or panics (res "panic").
Returned(res, value) == [res |-> res, value |-> value]

\* The characters of the texts: the signs, the comma, some digits, a letter.
Chars == {"+", "-", ",", "0", "1", "3", "5", "a"}
Digits == {"0", "1", "2", "3", "4", "5", "6", "7", "8", "9"}

\* char::to_digit(10)
to_digit(c) ==
    CASE c = "0" -> 0 [] c = "1" -> 1 [] c = "2" -> 2 [] c = "3" -> 3 [] c = "4" -> 4
      [] c = "5" -> 5 [] c = "6" -> 6 [] c = "7" -> 7 [] c = "8" -> 8 [] c = "9" -> 9

\* remainder.chars().filter(|x| *x != ',').collect::<String>()
RECURSIVE without_commas(_)
without_commas(s) ==
    IF s = <<>> THEN <<>>
    ELSE IF Head(s) = "," THEN without_commas(Tail(s))
    ELSE <<Head(s)>> \o without_commas(Tail(s))

\* The number a string of digits writes.
RECURSIVE decimal(_)
decimal(s) ==
    IF s = <<>> THEN 0 ELSE 10 * decimal(SubSeq(s, 1, Len(s) - 1)) + to_digit(s[Len(s)])

\* str::parse::<u32>: an optional '+', then one digit or more, no other
\* character; a number past u32::MAX is an error.
parse_u32(s) ==
    LET digits == IF s # <<>> /\ Head(s) = "+" THEN Tail(s) ELSE s
    IN  IF digits = <<>> \/ \E i \in 1..Len(digits) : digits[i] \notin Digits
        THEN Returned("format_error", 0)
        ELSE IF decimal(digits) \notin U32 THEN Returned("format_error", 0)
        ELSE Returned("ok", decimal(digits))

\* u32 to i32 by try_into().unwrap(): a panic past i32::MAX.
try_into_i32(x, then) == IF x > I32Max THEN Returned("panic", 0) ELSE Returned("ok", then)

\* A parse that keeps the commas.
from_str_with_commas(s) ==
    LET relative == s # <<>> /\ Head(s) \in {"+", "-"}
        remainder == IF relative THEN Tail(s) ELSE s
        parsed_remainder == parse_u32(remainder)
    IN  IF parsed_remainder.res # "ok" THEN parsed_remainder
        ELSE IF ~relative THEN Returned("ok", Total(parsed_remainder.value))
        ELSE IF Head(s) = "+"
             THEN try_into_i32(parsed_remainder.value, Relative(parsed_remainder.value))
             ELSE try_into_i32(parsed_remainder.value, Relative(parsed_remainder.value * (-1)))

\* impl FromStr for WordCountArgument
from_str(s) ==
    LET relative == s # <<>> /\ Head(s) \in {"+", "-"}
        remainder == IF relative THEN Tail(s) ELSE s
        parsed_remainder == parse_u32(without_commas(remainder))
    IN  IF parsed_remainder.res # "ok" THEN parsed_remainder
        ELSE IF ~relative THEN Returned("ok", Total(parsed_remainder.value))
        ELSE IF Head(s) = "+"
             THEN try_into_i32(parsed_remainder.value, Relative(parsed_remainder.value))
             ELSE try_into_i32(parsed_remainder.value, Relative(parsed_remainder.value * (-1)))

\* A conversion that keeps the current word count when given a total.
convert_to_total_keeping_current(self, current_word_count, build) ==
    Returned("ok", current_word_count)

\* WordCountArgument::convert_to_total: `x + (current_word_count as i32)`
\* panics on overflow with overflow checks and wraps without them; the
\* try_into of a value that is not negative never fails.
convert_to_total(self, current_word_count, build) ==
    IF self.kind = "Relative"
    THEN LET sum == self.value + as_i32(current_word_count)
         IN  IF sum \notin I32 /\ build = "debug" THEN Returned("panic", 0)
             ELSE IF wrapping_i32(sum) > 0 THEN Returned("ok", wrapping_i32(sum))
             ELSE Returned("ok", 0)
    ELSE Returned("ok", self.value)

\* -------------------------------------------------------------- state

\* The callers that hold a RankList: the tasks that run a command.
Callers == {1, 2}

VARIABLES
    ranks,    \* ranks[p]: the RankList caller p holds (commands.rs: `ranks`)
    pc,       \* pc[p]: "none" (no RankList yet), "live", "saving" (inside save), "done"
    cursor,   \* cursor[p]: the place of save: upserts executed, pending removals deleted
    store,    \* the rows of rank_table
    last,     \* last[p]: the latest call of caller p, its arguments and what it returned
    origin,   \* origin[p]: the slice the RankList was built from, until it is edited
    store0,   \* store0[p]: the rows of rank_table when caller p called save
    calc,     \* the latest call of a conversion (word_count.rs, to_rank), its input and result
    issued,   \* issued[id]: what the latest statement issued on the row of id made of it
    roles     \* the ids of the roles the guild of the commands has

vars == <<ranks, pc, cursor, store, last, origin, store0, calc, issued, roles>>

\* A call: its name, its arguments (a rank, a word count, the guild ids of its
\* ranks), the RankList before it, what it returned (res, ret), and the ranks
\* of the errors add_rank returned inside it.
Call(op, rank, count, guilds, before, res, ret, raised) ==
    [op |-> op, rank |-> rank, count |-> count, guilds |-> guilds, before |-> before,
     res |-> res, ret |-> ret, raised |-> raised]

NoCall == Call("none", NoRank, 0, {}, EmptyList, "ok", NoRank, {})

\* The ranks of the errors an outcome carries.
Raised(o) == IF o.res = "conflict" THEN {o.ret} ELSE {}

Origin(how, len, distinct) == [how |-> how, len |-> len, distinct |-> distinct]

NoOrigin == Origin("none", 0, FALSE)

NoCursor == [upserts |-> 0, deleted |-> {}]

\* Whether the word counts of a slice are pairwise distinct.
DistinctCounts(value) ==
    \A i, j \in 1..Len(value) : RankEq(value[i], value[j]) => i = j

GuildsOf(value) == {value[i].rank_id.guild_id : i \in 1..Len(value)}

\* A call of a function of word_count.rs: its name, the text or the argument
\* and current word count it was given, the build, and what it did.
Calc(op, text, self, current_word_count, build, out) ==
    [op |-> op, text |-> text, self |-> self, current_word_count |-> current_word_count,
     build |-> build, out |-> out]

\* No function of word_count.rs was called yet.
NoCalc == Calc("none", <<>>, Total(0), 0, "debug", Returned("ok", 0))

\* The guild the commands are run in, and the role ids of its roles.
Home == 1
HomeRoles == {id.role_id : id \in {x \in RankIds : x.guild_id = Home}}

\* What a statement makes of a row: the INSERT a row with the count bound to
\* it, the DELETE no row.
Inserted(count) == [present |-> TRUE, count |-> count]
NoRow == [present |-> FALSE, count |-> 0]

\* No caller holds a RankList and rank_table has no rows.
NoLists ==
    /\ ranks = [p \in Callers |-> EmptyList]
    /\ pc = [p \in Callers |-> "none"]
    /\ cursor = [p \in Callers |-> NoCursor]
    /\ store = {}
    /\ last = [p \in Callers |-> NoCall]
    /\ origin = [p \in Callers |-> NoOrigin]
    /\ store0 = [p \in Callers |-> {}]
    /\ issued = [id \in RankIds |-> NoRow]
    /\ roles = HomeRoles

Init ==
    /\ NoLists
    /\ calc = NoCalc

\* The texts given to the parser.
Texts == UNION {[1..n -> Chars] : n \in 0..MaxText}

\* The arguments given to convert_to_total.
Arguments == {Relative(x) : x \in I32} \cup {Total(x) : x \in U32}

\* A function of word_count.rs is about to be called: on a text, or on an
\* argument and a current word count in one of the builds.
InitCount ==
    /\ NoLists
    /\ calc \in {Calc("text", s, Total(0), 0, "debug", Returned("pending", 0)) : s \in Texts}
          \cup {Calc("argument", <<>>, self, current_word_count, build, Returned("pending", 0)) :
                   self \in Arguments, current_word_count \in U32, build \in Builds}

\* ------------------------------------------------------------ actions

\* let rank_list: RankList = value.into()
FromRank(p, value) ==
    /\ pc[p] = "none"
    /\ ranks' = [ranks EXCEPT ![p] = from_rank(value)]
    /\ pc' = [pc EXCEPT ![p] = "live"]
    /\ last' = [last EXCEPT ![p] = Call("from", value, 0, {value.rank_id.guild_id}, EmptyList, "ok", NoRank, {})]
    /\ origin' = [origin EXCEPT ![p] = Origin("from", 1, TRUE)]
    /\ UNCHANGED <<cursor, store, store0, calc, issued, roles>>

\* The slices a RankList is built from.
Slices == UNION {[1..n -> Ranks] : n \in 0..MaxBatch}

\* value.try_into() of a slice: the caller gets a RankList, an error, or the
\* panic of add_rank.
TryFromSlice(p) ==
    /\ pc[p] = "none"
    /\ \E value \in Slices :
         LET o == try_from(value) IN
         /\ ranks' = [ranks EXCEPT ![p] = o.self]
         /\ pc' = [pc EXCEPT ![p] = IF o.res = "ok" THEN "live" ELSE "done"]
         /\ last' = [last EXCEPT ![p] = Call("try_from", NoRank, 0, GuildsOf(value), EmptyList, o.res, o.ret, Raised(o))]
         /\ origin' = [origin EXCEPT ![p] =
                          IF o.res = "ok"
                          THEN Origin("try_from", Len(value), DistinctCounts(value))
                          ELSE NoOrigin]
    /\ UNCHANGED <<cursor, store, store0, calc, issued, roles>>

\* ranks.add_rank(rank): a panic ends the caller's task.
AddRank(p, rank) ==
    /\ pc[p] = "live"
    /\ LET o == add_rank(ranks[p], rank) IN
       /\ ranks' = [ranks EXCEPT ![p] = o.self]
       /\ pc' = [pc EXCEPT ![p] = IF o.res = "panic" THEN "done" ELSE "live"]
       /\ last' = [last EXCEPT ![p] = Call("add_rank", rank, 0, {rank.rank_id.guild_id}, ranks[p], o.res, o.ret, Raised(o))]
       /\ origin' = [origin EXCEPT ![p] = IF o.res = "ok" THEN Origin("edited", 0, FALSE) ELSE @]
    /\ UNCHANGED <<cursor, store, store0, calc, issued, roles>>

\* The ranks added in batches: two roles of a guild and a role of another,
\* with two word counts.
BatchRanks == {rank \in StoreRanks : rank.minimum_word_count <= 1}

\* The slices given to add_ranks.
Batches == UNION {[1..n -> BatchRanks] : n \in 0..MaxBatch}

\* ranks.add_ranks(&value): nothing is returned; a panic ends the caller's task.
AddRanks(p) ==
    /\ pc[p] = "live"
    /\ \E value \in Batches :
         LET o == add_ranks(ranks[p], value) IN
         /\ ranks' = [ranks EXCEPT ![p] = o.self]
         /\ pc' = [pc EXCEPT ![p] = IF o.res = "panic" THEN "done" ELSE "live"]
         /\ last' = [last EXCEPT ![p] = Call("add_ranks", NoRank, 0, GuildsOf(value), ranks[p],
                                             o.res, o.ret, add_ranks_errors(ranks[p], value, 1))]
         /\ origin' = [origin EXCEPT ![p] = IF o.self # ranks[p] THEN Origin("edited", 0, FALSE) ELSE @]
    /\ UNCHANGED <<cursor, store, store0, calc, issued, roles>>

\* ranks.remove_rank(rank)
RemoveRank(p, rank) ==
    /\ pc[p] = "live"
    /\ ranks' = [ranks EXCEPT ![p] = remove_rank(@, rank)]
    /\ last' = [last EXCEPT ![p] = Call("remove_rank", rank, 0, {rank.rank_id.guild_id}, ranks[p], "ok", NoRank, {})]
    /\ origin' = [origin EXCEPT ![p] = Origin("edited", 0, FALSE)]
    /\ UNCHANGED <<pc, cursor, store, store0, calc, issued, roles>>

\* ranks.get_rank_for_word_count(word_count)
GetRankForWordCount(p, word_count) ==
    /\ pc[p] = "live"
    /\ LET o == get_rank_for_word_count(ranks[p], word_count) IN
       /\ pc' = [pc EXCEPT ![p] = IF o.res = "panic" THEN "done" ELSE "live"]
       /\ last' = [last EXCEPT ![p] = Call("get_rank_for_word_count", NoRank, word_count, {}, ranks[p], o.res, o.ret, {})]
    /\ UNCHANGED <<ranks, cursor, store, origin, store0, calc, issued, roles>>

\* The caller's task ends and its RankList is dropped.
Drop(p) ==
    /\ pc[p] \in {"live", "done"}
    /\ ranks' = [ranks EXCEPT ![p] = EmptyList]
    /\ pc' = [pc EXCEPT ![p] = "none"]
    /\ cursor' = [cursor EXCEPT ![p] = NoCursor]
    /\ last' = [last EXCEPT ![p] = NoCall]
    /\ origin' = [origin EXCEPT ![p] = NoOrigin]
    /\ store0' = [store0 EXCEPT ![p] = {}]
    /\ UNCHANGED <<store, calc, issued, roles>>

\* RankList::load(db, guild_id): the rows of the guild, in the order the
\* query returns them, made into a RankList.
Load(p, guild_id) ==
    /\ pc[p] = "none"
    /\ \E rows \in RowOrders(select(store, guild_id)) :
         LET value == [i \in 1..Len(rows) |-> from_db(rows[i])]
             o == try_from(value)
         IN  /\ ranks' = [ranks EXCEPT ![p] = o.self]
             /\ pc' = [pc EXCEPT ![p] = IF o.res = "ok" THEN "live" ELSE "done"]
             /\ last' = [last EXCEPT ![p] = Call("load", NoRank, 0, {guild_id}, EmptyList, o.res, o.ret, Raised(o))]
             /\ origin' = [origin EXCEPT ![p] =
                              IF o.res = "ok"
                              THEN Origin("load", Len(value), DistinctCounts(value))
                              ELSE NoOrigin]
    /\ UNCHANGED <<cursor, store, store0, calc, issued, roles>>

\* ranks.save(db) is called: the RankList moves into save.
Save(p) ==
    /\ pc[p] = "live"
    /\ pc' = [pc EXCEPT ![p] = "saving"]
    /\ cursor' = [cursor EXCEPT ![p] = NoCursor]
    /\ store0' = [store0 EXCEPT ![p] = store]
    /\ last' = [last EXCEPT ![p] = Call("save", NoRank, 0, {}, ranks[p], "pending", NoRank, {})]
    /\ UNCHANGED <<ranks, store, origin, calc, issued, roles>>

\* save: the INSERT of the next rank of rank_order.
SaveUpsert(p) ==
    /\ pc[p] = "saving"
    /\ cursor[p].upserts < Len(ranks[p].rank_order)
    /\ store' = upsert(store, ranks[p].rank_order[cursor[p].upserts + 1])
    /\ issued' = [issued EXCEPT ![ranks[p].rank_order[cursor[p].upserts + 1].rank_id] =
                                 Inserted(bound_count(ranks[p].rank_order[cursor[p].upserts + 1]))]
    /\ cursor' = [cursor EXCEPT ![p].upserts = @ + 1]
    /\ UNCHANGED <<ranks, pc, last, origin, store0, calc, roles>>

\* A save whose DELETEs do not wait for the INSERTs.
SaveDeleteAnyTime(p) ==
    /\ pc[p] = "saving"
    /\ \E rank \in ranks[p].pending_removals \ cursor[p].deleted :
         /\ store' = delete(store, rank)
         /\ issued' = [issued EXCEPT ![rank.rank_id] = NoRow]
         /\ cursor' = [cursor EXCEPT ![p].deleted = @ \cup {rank}]
    /\ UNCHANGED <<ranks, pc, last, origin, store0, calc, roles>>

\* save: the DELETE of a pending removal, once every INSERT is done.
SaveDelete(p) ==
    /\ pc[p] = "saving"
    /\ cursor[p].upserts = Len(ranks[p].rank_order)
    /\ \E rank \in ranks[p].pending_removals \ cursor[p].deleted :
         /\ store' = delete(store, rank)
         /\ issued' = [issued EXCEPT ![rank.rank_id] = NoRow]
         /\ cursor' = [cursor EXCEPT ![p].deleted = @ \cup {rank}]
    /\ UNCHANGED <<ranks, pc, last, origin, store0, calc, roles>>

\* A save that answers Ok(()) whatever is left to do.
SaveOkIgnoringErrors(p) ==
    /\ pc[p] = "saving"
    /\ pc' = [pc EXCEPT ![p] = "done"]
    /\ last' = [last EXCEPT ![p].res = "ok"]
    /\ UNCHANGED <<ranks, cursor, store, origin, store0, calc, issued, roles>>

\* save: every statement is done, Ok(()) is returned and the RankList dropped.
SaveOk(p) ==
    /\ pc[p] = "saving"
    /\ cursor[p].upserts = Len(ranks[p].rank_order)
    /\ cursor[p].deleted = ranks[p].pending_removals
    /\ pc' = [pc EXCEPT ![p] = "done"]
    /\ last' = [last EXCEPT ![p].res = "ok"]
    /\ UNCHANGED <<ranks, cursor, store, origin, store0, calc, issued, roles>>

\* A save that hands the RankList back to the caller with the error.
SaveErrorKeepingList(p) ==
    /\ pc[p] = "saving"
    /\ \/ cursor[p].upserts < Len(ranks[p].rank_order)
       \/ cursor[p].deleted # ranks[p].pending_removals
    /\ pc' = [pc EXCEPT ![p] = "live"]
    /\ last' = [last EXCEPT ![p].res = "storage_error"]
    /\ UNCHANGED <<ranks, cursor, store, origin, store0, calc, issued, roles>>

\* save: the next statement fails, `?` returns the error and the RankList is dropped.
SaveError(p) ==
    /\ pc[p] = "saving"
    /\ \/ cursor[p].upserts < Len(ranks[p].rank_order)
       \/ cursor[p].deleted # ranks[p].pending_removals
    /\ pc' = [pc EXCEPT ![p] = "done"]
    /\ last' = [last EXCEPT ![p].res = "storage_error"]
    /\ UNCHANGED <<ranks, cursor, store, origin, store0, calc, issued, roles>>

\* save: the task is cancelled at an `.await`: the future and the RankList in
\* it are dropped, nothing is returned.
SaveCancel(p) ==
    /\ pc[p] = "saving"
    /\ pc' = [pc EXCEPT ![p] = "done"]
    /\ last' = [last EXCEPT ![p].res = "cancelled"]
    /\ UNCHANGED <<ranks, cursor, store, origin, store0, calc, issued, roles>>

\* The guild of the commands as ctx.partial_guild() returns it.
PartialGuild == Guild(Home, roles)

\* A set_rank that goes on to save after the error of add_rank.
SetRankAddGoingOn(p, role, minimum_word_count) ==
    /\ pc[p] = "live"
    /\ last[p].op = "load"
    /\ LET new_rank == Rank(Home, role, minimum_word_count)
           o == add_rank(ranks[p], new_rank)
       IN  /\ ranks' = [ranks EXCEPT ![p] = o.self]
           /\ pc' = [pc EXCEPT ![p] = "live"]
           /\ last' = [last EXCEPT ![p] = Call("add_rank", new_rank, 0, {Home}, ranks[p],
                                               o.res, o.ret, Raised(o))]
           /\ origin' = [origin EXCEPT ![p] = Origin("edited", 0, FALSE)]
    /\ UNCHANGED <<cursor, store, store0, calc, issued, roles>>

\* set_rank after its load: the rank is made of the command's arguments and
\* added.  On the error of add_rank the error is made a Discord error and
\* returned, and the task panics when the role of the rank in the error is
\* not in the guild; on either the command ends before save.
SetRankAdd(p, role, minimum_word_count) ==
    /\ pc[p] = "live"
    /\ last[p].op = "load"
    /\ LET new_rank == Rank(Home, role, minimum_word_count)
           o == add_rank(ranks[p], new_rank)
           res == IF o.res = "conflict" /\ ~to_discord_error(o.ret, PartialGuild).some
                  THEN "panic" ELSE o.res
       IN  /\ ranks' = [ranks EXCEPT ![p] = o.self]
           /\ pc' = [pc EXCEPT ![p] = IF res = "ok" THEN "live" ELSE "done"]
           /\ last' = [last EXCEPT ![p] = Call("add_rank", new_rank, 0, {Home}, ranks[p],
                                               res, o.ret, Raised(o))]
           /\ origin' = [origin EXCEPT ![p] = IF res = "ok" THEN Origin("edited", 0, FALSE) ELSE @]
    /\ UNCHANGED <<cursor, store, store0, calc, issued, roles>>

\* set_rank: ranks.save(pool), reached after add_rank.
SetRankSave(p) ==
    /\ last[p].op = "add_rank"
    /\ Save(p)

\* list_ranks after its load: every rank is made a DiscordRank with unwrap,
\* which panics on a rank whose role is not in the guild; then the response
\* is sent.
ListRanks(p) ==
    /\ pc[p] = "live"
    /\ last[p].op = "load"
    /\ pc' = [pc EXCEPT ![p] = "done"]
    /\ last' = [last EXCEPT ![p] =
                  Call("list_ranks", NoRank, 0, {Home}, ranks[p],
                       IF \A i \in 1..Len(iter(ranks[p])) : to_rank(iter(ranks[p])[i], PartialGuild).some
                       THEN "ok" ELSE "panic",
                       NoRank, {})]
    /\ UNCHANGED <<ranks, cursor, store, origin, store0, calc, issued, roles>>

\* A role of the guild is deleted in Discord.
DeleteRole(role_id) ==
    /\ role_id \in roles
    /\ roles' = roles \ {role_id}
    /\ UNCHANGED <<ranks, pc, cursor, store, last, origin, store0, calc, issued>>

\* A call of Rank::to_rank and of the conversion back: the rank, the guild,
\* what to_rank returned and the Rank made of it.
Conv(op, rank, guild, out, back) ==
    [op |-> op, rank |-> rank, guild |-> guild, out |-> out, back |-> back]

\* The guilds a rank is looked up in.
GuildObjects == {Guild(id, role_ids) : id \in Guilds, role_ids \in SUBSET HomeRoles}

\* A rank is about to be looked up in a guild.
InitConvert ==
    /\ NoLists
    /\ calc \in {Conv("rank", rank, guild, Nothing, NoRank) : rank \in Ranks, guild \in GuildObjects}

\* rank.to_rank(&guild)
ToRank ==
    /\ calc.op = "rank"
    /\ calc' = [calc EXCEPT !.op = "to_rank", !.out = to_rank(calc.rank, calc.guild)]
    /\ UNCHANGED <<ranks, pc, cursor, store, last, origin, store0, issued, roles>>

\* let rank: Rank = discord_rank.into()
FromDiscordRank ==
    /\ calc.op = "to_rank"
    /\ calc.out.some
    /\ calc' = [calc EXCEPT !.op = "from", !.back = from_discord_rank(calc.out.value)]
    /\ UNCHANGED <<ranks, pc, cursor, store, last, origin, store0, issued, roles>>

\* s.parse::<WordCountArgument>()
FromStr ==
    /\ calc.op = "text"
    /\ calc' = [calc EXCEPT !.op = "from_str", !.out = from_str(calc.text)]
    /\ UNCHANGED <<ranks, pc, cursor, store, last, origin, store0, issued, roles>>

\* self.convert_to_total(current_word_count)
ConvertToTotal ==
    /\ calc.op = "argument"
    /\ calc' = [calc EXCEPT !.op = "convert_to_total",
                            !.out = convert_to_total(calc.self, calc.current_word_count, calc.build)]
    /\ UNCHANGED <<ranks, pc, cursor, store, last, origin, store0, issued, roles>>

\* ----------------------------------------------------- specifications

\* The caller whose RankList the specifications below follow.
Writer == 1

\* A RankList in memory: built from a rank or a slice, edited and queried.
Next ==
    \/ \E value \in Ranks : FromRank(Writer, value)
    \/ TryFromSlice(Writer)
    \/ \E rank \in Ranks : AddRank(Writer, rank)
    \/ \E rank \in Ranks : RemoveRank(Writer, rank)
    \/ \E word_count \in Counts : GetRankForWordCount(Writer, word_count)
    \/ Drop(Writer)

Spec == Init /\ [][Next]_vars

\* One writer and the database: load, edit, save.
NextStore ==
    \/ \E guild_id \in Guilds : Load(Writer, guild_id)
    \/ \E rank \in StoreRanks : AddRank(Writer, rank)
    \/ \E rank \in StoreRanks : RemoveRank(Writer, rank)
    \/ Save(Writer)
    \/ SaveUpsert(Writer)
    \/ SaveDelete(Writer)
    \/ SaveOk(Writer)
    \/ SaveError(Writer)
    \/ SaveCancel(Writer)
    \/ Drop(Writer)

SpecStore == Init /\ [][NextStore]_vars

\* The ranks of the guild of the commands: its roles, with the least and the
\* greatest word count.
HomeRanks ==
    [rank_id : {id \in RankIds : id.guild_id = Home},
     minimum_word_count : {count \in StoreCounts : count \in {0, U32Size - 1}}]

\* One writer that loads the guild of the commands, edits the RankList with
\* ranks of that guild, and saves it.
NextCycle ==
    \/ Load(Writer, Home)
    \/ \E rank \in HomeRanks : AddRank(Writer, rank)
    \/ \E rank \in HomeRanks : RemoveRank(Writer, rank)
    \/ Save(Writer)
    \/ SaveUpsert(Writer)
    \/ SaveDelete(Writer)
    \/ SaveOk(Writer)
    \/ SaveError(Writer)
    \/ Drop(Writer)

SpecCycle == Init /\ [][NextCycle]_vars

\* The ranks two concurrent callers use: two roles of the guild of the commands.
PairRanks == {rank \in HomeRanks : rank.rank_id \in StoreRankIds}

\* Two callers that load the guild of the commands, add or remove one rank
\* and save, each at its own pace and over again.
NextPair ==
    \E p \in Callers :
        \/ Load(p, Home)
        \/ \E rank \in PairRanks : origin[p].how = "load" /\ AddRank(p, rank)
        \/ \E rank \in PairRanks : origin[p].how = "load" /\ RemoveRank(p, rank)
        \/ Save(p)
        \/ SaveUpsert(p)
        \/ SaveDelete(p)
        \/ SaveOk(p)
        \/ Drop(p)

SpecPair == Init /\ [][NextPair]_vars

\* A RankList in memory that ranks are added to, one at a time and in batches.
NextBatch ==
    \/ \E value \in BatchRanks : FromRank(Writer, value)
    \/ \E rank \in BatchRanks : AddRank(Writer, rank)
    \/ \E rank \in BatchRanks : RemoveRank(Writer, rank)
    \/ AddRanks(Writer)
    \/ Drop(Writer)

SpecBatch == Init /\ [][NextBatch]_vars

\* The functions of word_count.rs, on every text and every argument.
NextCount ==
    \/ FromStr
    \/ ConvertToTotal

SpecCount == InitCount /\ [][NextCount]_vars

\* The roles and word counts given to set_rank.
CommandRoles == {rank.rank_id.role_id : rank \in PairRanks}
CommandCounts == {rank.minimum_word_count : rank \in PairRanks}

\* The commands: two tasks that run set_rank or list_ranks on the guild, over
\* again, while roles of the guild are deleted.  set_rank removes no rank, so
\* its save has no DELETE to issue.
NextCommands ==
    \/ \E p \in Callers :
          \/ Load(p, Home)
          \/ \E role \in CommandRoles, minimum_word_count \in CommandCounts :
                SetRankAdd(p, role, minimum_word_count)
          \/ SetRankSave(p)
          \/ SaveUpsert(p)
          \/ SaveOk(p)
          \/ SaveError(p)
          \/ ListRanks(p)
          \/ Drop(p)
    \/ \E role_id \in CommandRoles : DeleteRole(role_id)

SpecCommands == Init /\ [][NextCommands]_vars

\* Rank::to_rank and the conversion back, on every rank and guild.
NextConvert ==
    \/ ToRank
    \/ FromDiscordRank

SpecConvert == InitConvert /\ [][NextConvert]_vars

\* --------------------------------------------------------- properties

\* The active ranks of another identity that hold the word count of rank.
Holders(self, rank) ==
    {x \in self.rank_set : RankEq(x, rank) /\ x.rank_id # rank.rank_id}

\* The contract of add_rank: the rank is of the guild of the RankList.
InGuild(self, rank) == self.guild_id \in {None, rank.rank_id.guild_id}

\* The entries of rank_order that have the rank id of rank.
OrderEntriesOf(order, rank) == {i \in 1..Len(order) : RankHashEq(order[i], rank)}

C3_ConflictOnlyForOtherIdentity ==
    \A p \in Callers :
      LET c == last[p] IN
      c.op = "add_rank"
      => /\ c.res = "conflict" => Holders(c.before, c.rank) # {}
         /\ c.rank \in c.before.rank_set => c.res = "ok"

\* C4: add_rank(r) when r's identity is active with another word count and no
\* active rank holds r's word count: succeeds, leaves one active rank of the
\* identity, with the new word count, and no entry of rank_order with the old.
C4_AddReplacesOwnCount ==
    \A p \in Callers :
      LET c == last[p] IN
      (c.op = "add_rank" /\ HashContains(c.before.rank_set, c.rank)
         /\ ~RankEq(HashGet(c.before.rank_set, c.rank), c.rank)
         /\ ~\E x \in c.before.rank_set : RankEq(x, c.rank))
      => /\ c.res = "ok"
         /\ {x \in ranks[p].rank_set : RankHashEq(x, c.rank)} = {c.rank}
         /\ ~OrderContains(ranks[p].rank_order, HashGet(c.before.rank_set, c.rank))
         /\ \A i \in OrderEntriesOf(ranks[p].rank_order, c.rank) :
               ranks[p].rank_order[i] = c.rank

\* A role that was active among other roles got a new word count.
C4_Witness ==
    /\ last[Writer].op = "add_rank"
    /\ last[Writer].res = "ok"
    /\ HashContains(last[Writer].before.rank_set, last[Writer].rank)
    /\ ~RankEq(HashGet(last[Writer].before.rank_set, last[Writer].rank), last[Writer].rank)
    /\ Cardinality(last[Writer].before.rank_set) > 1

\* C5: no identity is at once in rank_set and in pending_removals.
C5_ActiveAndPendingDisjoint ==
    \A p \in Callers :
      \A x \in ranks[p].rank_set : ~HashContains(ranks[p].pending_removals, x)

\* An active rank was removed from a list that keeps other active ranks.
C5_Witness ==
    /\ last[Writer].op = "remove_rank"
    /\ HashContains(last[Writer].before.rank_set, last[Writer].rank)
    /\ ranks[Writer].rank_set # {}
    /\ ranks[Writer].pending_removals # {}

\* C6: no two active ranks have the same minimum_word_count, and iter yields
\* the active ranks in strictly ascending minimum_word_count.
C6_UniqueAscendingCounts ==
    \A p \in Callers :
      LET it == iter(ranks[p]) IN
      /\ \A x, y \in ranks[p].rank_set : RankEq(x, y) => x = y
      /\ {it[i] : i \in 1..Len(it)} = ranks[p].rank_set
      /\ \A i \in 1..(Len(it) - 1) : it[i].minimum_word_count < it[i + 1].minimum_word_count

\* A rank was added below the two ranks the list already had.
C6_Witness ==
    /\ last[Writer].op = "add_rank"
    /\ last[Writer].res = "ok"
    /\ Len(ranks[Writer].rank_order) = 3
    /\ ranks[Writer].rank_order[1] = last[Writer].rank

\* C7: after a successful add_rank(r), r's identity is not in pending_removals
\* and is active once; so it is after remove_rank(r) and add_rank of the
\* identity with no save between them.
C7_AddCancelsPendingRemoval ==
    \A p \in Callers :
      LET c == last[p] IN
      (c.op = "add_rank" /\ c.res = "ok")
      => /\ ~HashContains(ranks[p].pending_removals, c.rank)
         /\ Cardinality({x \in ranks[p].rank_set : RankHashEq(x, c.rank)}) = 1
         /\ Cardinality(OrderEntriesOf(ranks[p].rank_order, c.rank)) = 1

\* A removed identity was added back.
C7_Witness ==
    /\ last[Writer].op = "add_rank"
    /\ last[Writer].res = "ok"
    /\ HashContains(last[Writer].before.pending_removals, last[Writer].rank)

\* C8: remove_rank never fails; an active identity leaves rank_set and
\* rank_order and its rank enters pending_removals; an identity that is not
\* active leaves the list as it was, so a second removal changes nothing.
C8_RemoveMovesToPending ==
    \A p \in Callers :
      LET c == last[p] IN
      c.op = "remove_rank"
      => /\ c.res = "ok"
         /\ pc[p] # "done"
         /\ IF HashContains(c.before.rank_set, c.rank)
            THEN LET t == HashGet(c.before.rank_set, c.rank) IN
                 /\ ranks[p].rank_set = c.before.rank_set \ {t}
                 /\ ranks[p].rank_order = SelectSeq(c.before.rank_order, LAMBDA x : x # t)
                 /\ ranks[p].pending_removals = c.before.pending_removals \cup {t}
                 /\ ranks[p].guild_id = c.before.guild_id
            ELSE ranks[p] = c.before
         /\ remove_rank(ranks[p], c.rank) = ranks[p]

\* An identity was removed a second time.
C8_Witness ==
    /\ last[Writer].op = "remove_rank"
    /\ ~HashContains(last[Writer].before.rank_set, last[Writer].rank)
    /\ HashContains(last[Writer].before.pending_removals, last[Writer].rank)

\* C9: a list with no guild id takes the guild id of the first rank added;
\* add_rank of a rank of another guild panics and leaves the list as it was;
\* try_from of a slice with ranks of two guilds yields no list.
C9_GuildContract ==
    \A p \in Callers :
      LET c == last[p] IN
      /\ (c.op = "add_rank" /\ c.before.guild_id = None)
         => c.res = "ok" /\ ranks[p].guild_id = c.rank.rank_id.guild_id
      /\ (c.op = "add_rank" /\ ~InGuild(c.before, c.rank))
         => c.res = "panic" /\ ranks[p] = c.before /\ pc[p] = "done"
      /\ (c.op = "try_from" /\ Cardinality(c.guilds) > 1)
         => c.res # "ok" /\ pc[p] = "done" /\ ranks[p] = EmptyList

\* try_from of a slice with ranks of two guilds ended in the panic of add_rank.
C9_Witness ==
    /\ last[Writer].op = "try_from"
    /\ Cardinality(last[Writer].guilds) > 1
    /\ last[Writer].res = "panic"

\* The rows of rank_table with the key of a rank.
RowsOf(table, rank) ==
    {row \in table : row.guild_id = rank.rank_id.guild_id /\ row.role_id = rank.rank_id.role_id}

\* C10: after a save that returned Ok, with no other writer, rank_table has for
\* every active rank the row of its guild id and role id with its
\* minimum_word_count, has no row of a pending removal, and its other rows are
\* those it had when save was called.
C10_SaveReconciles ==
    \A p \in Callers :
      (last[p].op = "save" /\ last[p].res = "ok")
      => /\ \A x \in ranks[p].rank_set :
              RowsOf(store, x) = {DbRankId(x.rank_id.guild_id, x.rank_id.role_id, x.minimum_word_count)}
         /\ \A x \in ranks[p].pending_removals : RowsOf(store, x) = {}
         /\ \A row \in store \cup store0[p] :
              (\A x \in ranks[p].rank_set \cup ranks[p].pending_removals :
                   row \notin RowsOf({row}, x))
              => (row \in store <=> row \in store0[p])

\* What save does write: the row of an active rank holds the word count cast
\* to i32, which reads back as the word count.
SaveWritesCastCounts ==
    \A p \in Callers :
      (last[p].op = "save" /\ last[p].res = "ok")
      => /\ \A x \in ranks[p].rank_set :
              /\ RowsOf(store, x) = {DbRankId(x.rank_id.guild_id, x.rank_id.role_id, as_i32(x.minimum_word_count))}
              /\ \A row \in RowsOf(store, x) : from_db(row) = x
         /\ \A x \in ranks[p].pending_removals : RowsOf(store, x) = {}
         /\ \A row \in store \cup store0[p] :
              (\A x \in ranks[p].rank_set \cup ranks[p].pending_removals :
                   row \notin RowsOf({row}, x))
              => (row \in store <=> row \in store0[p])

\* The rows of rank_table after the first n INSERTs of save and the DELETEs of
\* the ranks in deleted.
RECURSIVE Upserted(_, _, _)
Upserted(table, order, n) ==
    IF n = 0 THEN table ELSE upsert(Upserted(table, order, n - 1), order[n])

RECURSIVE Deleted(_, _)
Deleted(table, deleted) ==
    IF deleted = {} THEN table
    ELSE LET rank == CHOOSE x \in deleted : TRUE
         IN  delete(Deleted(table, deleted \ {rank}), rank)

Executed(p) ==
    Deleted(Upserted(store0[p], ranks[p].rank_order, cursor[p].upserts), cursor[p].deleted)

\* Whether save of caller p has executed every statement.
Complete(p) ==
    /\ cursor[p].upserts = Len(ranks[p].rank_order)
    /\ cursor[p].deleted = ranks[p].pending_removals

C11_WitnessCancelled ==
    \E p \in Callers :
        last[p].op = "save" /\ last[p].res = "cancelled" /\ ~Complete(p)

Requested(p) == CHOOSE guild_id \in last[p].guilds : TRUE

\* Caller p has just loaded a guild that has no row in rank_table.
LoadedNoRows(p) ==
    /\ last[p].op = "load"
    /\ last[p].res = "ok"
    /\ {row \in store : row.guild_id = Requested(p)} = {}

Max(x, y) == IF x > y THEN x ELSE y

\* C15: convert_to_total of Relative(d) on a current word count c returns
\* max(c + d, 0) whenever that number is a u32, and does not panic.
C15_RelativeAddsAndClamps ==
    (/\ calc.op = "convert_to_total"
     /\ calc.self.kind = "Relative"
     /\ Max(calc.current_word_count + calc.self.value, 0) \in U32)
    => calc.out = Returned("ok", Max(calc.current_word_count + calc.self.value, 0))

\* What convert_to_total does keep: with a current word count within i32::MAX
\* and a sum within i32, the result is max(c + d, 0).
ConvertWithinI32 ==
    (/\ calc.op = "convert_to_total"
     /\ calc.self.kind = "Relative"
     /\ calc.current_word_count <= I32Max
     /\ calc.current_word_count + calc.self.value \in I32)
    => calc.out = Returned("ok", Max(calc.current_word_count + calc.self.value, 0))

\* C16: convert_to_total of Total(x) returns x, whatever the current word
\* count is.
C16_TotalReplaces ==
    (calc.op = "convert_to_total" /\ calc.self.kind = "Total")
    => calc.out = Returned("ok", calc.self.value)

\* A total below a current word count that is above i32::MAX was converted.
C16_Witness ==
    /\ calc.op = "convert_to_total"
    /\ calc.self.kind = "Total"
    /\ calc.current_word_count > I32Max
    /\ calc.self.value < calc.current_word_count
    /\ calc.self.value > 0

\* Whether a text starts with a sign.
Signed(s) == s # <<>> /\ Head(s) \in {"+", "-"}

IsDigit(c) == c \in Digits

\* The number written by the digits of a text, its other characters left out.
ValueOf(s) == decimal(SelectSeq(s, IsDigit))

\* A sign or none, then digits and commas with one digit at least.
WellFormed(s) ==
    LET rest == IF Signed(s) THEN Tail(s) ELSE s
    IN  /\ \A i \in 1..Len(rest) : rest[i] \in Digits \cup {","}
        /\ \E i \in 1..Len(rest) : rest[i] \in Digits

\* C17: the value the parser returns is Relative exactly when the text starts
\* with '+' or '-', positive for '+' and negative for '-', and Total
\* otherwise, and its number is the one the digits of the text write with the
\* commas left out; a sign or none followed by digits and commas is parsed
\* when its number is within i32::MAX (signed) or u32::MAX (unsigned).
C17_ParseSignAndCommas ==
    calc.op = "from_str"
    => /\ calc.out.res = "ok"
          => calc.out.value =
                IF ~Signed(calc.text) THEN Total(ValueOf(calc.text))
                ELSE IF Head(calc.text) = "+" THEN Relative(ValueOf(calc.text))
                ELSE Relative(0 - ValueOf(calc.text))
       /\ (/\ WellFormed(calc.text)
           /\ ValueOf(calc.text) <= (IF Signed(calc.text) THEN I32Max ELSE U32Size - 1))
          => calc.out.res = "ok"

\* "+1,5" was parsed to Relative(15).
C17_Witness ==
    /\ calc.op = "from_str"
    /\ calc.text = <<"+", "1", ",", "5">>
    /\ calc.out = Returned("ok", Relative(15))

\* "-1,5" was parsed to Relative(-15) and "3,1" to Total(31).
C17_WitnessNegative ==
    /\ calc.op = "from_str"
    /\ calc.text = <<"-", "1", ",", "5">>
    /\ calc.out = Returned("ok", Relative(-15))

C17_WitnessTotal ==
    /\ calc.op = "from_str"
    /\ calc.text = <<"3", ",", "1">>
    /\ calc.out = Returned("ok", Total(31))

NotComma(c) == c # ","

\* The text after its one optional leading sign, with the commas left out.
Remainder(s) == SelectSeq(IF Signed(s) THEN Tail(s) ELSE s, NotComma)

\* A string of one decimal digit or more that writes a u32.
UnsignedInteger(s) ==
    /\ s # <<>>
    /\ \A i \in 1..Len(s) : s[i] \in Digits
    /\ decimal(s) \in U32

\* C18: the parser returns a format error for the empty text and for every
\* text whose remainder is not a string of decimal digits that writes a u32,
\* and returns a value for no such text.
C18_ParseRejectsMalformed ==
    calc.op = "from_str"
    => /\ ~UnsignedInteger(Remainder(calc.text)) => calc.out.res = "format_error"
       /\ calc.out.res = "ok" => UnsignedInteger(Remainder(calc.text))

\* What the parser does reject: the same, but for a remainder that is a '+'
\* followed by an unsigned integer.
ParseRejectsButSecondPlus ==
    calc.op = "from_str"
    => LET r == Remainder(calc.text)
           plus == r # <<>> /\ Head(r) = "+" /\ UnsignedInteger(Tail(r))
       IN  /\ (~UnsignedInteger(r) /\ ~plus) => calc.out.res = "format_error"
           /\ calc.out.res = "ok" => (UnsignedInteger(r) \/ plus)

\* C19: a RankList a caller holds has one active rank at least, however it
\* was built and edited, and get_rank_for_word_count never panics.
C19_AlwaysOneRank ==
    \A p \in Callers :
        /\ pc[p] = "live" => ranks[p].rank_set # {} /\ ranks[p].rank_order # <<>>
        /\ last[p].op = "get_rank_for_word_count" => last[p].res # "panic"

\* The two halves of C19 apart: a held RankList is never empty; the lookup
\* never panics.
HeldListNeverEmpty ==
    \A p \in Callers : pc[p] = "live" => ranks[p].rank_set # {}

LookupNeverPanics ==
    \A p \in Callers : last[p].op = "get_rank_for_word_count" => last[p].res # "panic"

\* C20: an error add_rank returns is returned by the call it was raised in,
\* be it add_rank, add_ranks or the construction from a slice: the caller gets
\* the conflict with the rank of every error raised.
C20_ConflictReturned ==
    \A p \in Callers :
        last[p].raised # {} => last[p].res = "conflict" /\ last[p].raised = {last[p].ret}

\* The same for the calls other than add_ranks.
ConflictReturnedButByAddRanks ==
    \A p \in Callers :
        (last[p].raised # {} /\ last[p].op # "add_ranks")
        => last[p].res = "conflict" /\ last[p].raised = {last[p].ret}

\* The ranks rank_order holds.
OrderRanks(self) == {self.rank_order[i] : i \in 1..Len(self.rank_order)}

\* C22: rank_set and rank_order hold the same ranks: each active identity has
\* one entry in each, with the same minimum_word_count, and neither holds a
\* rank the other lacks.
C22_IndexesAgree ==
    \A p \in Callers :
        /\ OrderRanks(ranks[p]) = ranks[p].rank_set
        /\ Len(ranks[p].rank_order) = Cardinality(ranks[p].rank_set)
        /\ \A x, y \in ranks[p].rank_set : RankHashEq(x, y) => x = y
        /\ \A x \in ranks[p].rank_set : Cardinality(OrderEntriesOf(ranks[p].rank_order, x)) = 1

\* A rank was removed from a RankList that keeps two other ranks, one of them
\* added in place of a rank of its identity.
C22_Witness ==
    \E p \in Callers :
        /\ pc[p] = "live"
        /\ last[p].op = "remove_rank"
        /\ last[p].before # ranks[p]
        /\ Cardinality(ranks[p].rank_set) = 2

\* C23: in a save no DELETE is issued before the last INSERT, and no identity
\* gets both an INSERT and a DELETE.
C23_UpsertsBeforeDeletes ==
    \A p \in Callers :
        last[p].op = "save"
        => /\ cursor[p].deleted # {} => cursor[p].upserts = Len(ranks[p].rank_order)
           /\ \A x \in ranks[p].pending_removals :
                 \A i \in 1..Len(ranks[p].rank_order) : ~RankHashEq(ranks[p].rank_order[i], x)

\* A save issued an INSERT, then a DELETE.
C23_Witness ==
    \E p \in Callers :
        /\ last[p].op = "save"
        /\ cursor[p].upserts >= 1
        /\ cursor[p].deleted # {}

\* C25: remove_rank(r) takes the active rank of r's identity, whatever r's
\* minimum_word_count is: that rank leaves rank_set and rank_order and is
\* recorded in pending_removals with its own word count, and every other
\* active rank, one that holds r's word count included, stays in both.
C25_RemoveByIdentity ==
    \A p \in Callers :
        (last[p].op = "remove_rank" /\ HashContains(last[p].before.rank_set, last[p].rank))
        => LET before == last[p].before
               active == HashGet(before.rank_set, last[p].rank)
           IN  /\ ~HashContains(ranks[p].rank_set, last[p].rank)
               /\ OrderEntriesOf(ranks[p].rank_order, last[p].rank) = {}
               /\ active \in ranks[p].pending_removals
               /\ \A x \in ranks[p].pending_removals :
                     RankHashEq(x, active) => x = active
               /\ ranks[p].rank_set = before.rank_set \ {active}
               /\ OrderRanks(ranks[p]) = OrderRanks(before) \ {active}

\* A rank was removed by an argument whose word count is not the rank's but
\* that of another active rank.
C25_Witness ==
    \E p \in Callers :
        /\ last[p].op = "remove_rank"
        /\ HashContains(last[p].before.rank_set, last[p].rank)
        /\ HashGet(last[p].before.rank_set, last[p].rank).minimum_word_count
              # last[p].rank.minimum_word_count
        /\ \E x \in ranks[p].rank_set : RankEq(x, last[p].rank)

\* What RankList::load returns for rows in the order given.
Reloaded(rows) == try_from([i \in 1..Len(rows) |-> from_db(rows[i])])

C21_LastStatementWins ==
    /\ \A p \in Callers :
          pc[p] = "saving" => ENABLED (SaveUpsert(p) \/ SaveDelete(p) \/ SaveOk(p))
    /\ \A id \in RankIds :
          {row \in store : row.guild_id = id.guild_id /\ row.role_id = id.role_id}
            = IF issued[id].present
              THEN {DbRankId(id.guild_id, id.role_id, issued[id].count)}
              ELSE {}

\* Both saves returned Ok, and a row one caller deleted is back: the other
\* caller, which had loaded it, inserted it afterwards.
C21_Witness ==
    \E p, q \in Callers :
        /\ p # q
        /\ last[p].op = "save" /\ last[p].res = "ok"
        /\ last[q].op = "save" /\ last[q].res = "ok"
        /\ \E x \in ranks[p].pending_removals :
              /\ cursor[p].deleted = ranks[p].pending_removals
              /\ HashContains(ranks[q].rank_set, x)
              /\ RowsOf(store, x) # {}

\* Both saves returned Ok, and the row of a rank one caller saved holds the
\* word count the other caller saved.
C21_WitnessOverwritten ==
    \E p, q \in Callers :
        /\ p # q
        /\ last[p].op = "save" /\ last[p].res = "ok"
        /\ last[q].op = "save" /\ last[q].res = "ok"
        /\ \E x \in ranks[p].rank_set, y \in ranks[q].rank_set :
              /\ RankHashEq(x, y)
              /\ ~RankEq(x, y)
              /\ \A row \in RowsOf(store, x) : from_db(row) = y

\* C24: to_rank returns None exactly when the guild has no role with the
\* rank's role id; otherwise it returns a DiscordRank of that role of the
\* guild with the rank's minimum_word_count, and the Rank made of it has the
\* role id and the minimum_word_count of the rank.
C24_ToRankAndBack ==
    calc.op \in {"to_rank", "from"}
    => /\ calc.out.some <=> \E role \in calc.guild.roles : role.id = calc.rank.rank_id.role_id
       /\ calc.out.some
          => /\ calc.out.value.role \in calc.guild.roles
             /\ calc.out.value.role.id = calc.rank.rank_id.role_id
             /\ calc.out.value.minimum_word_count = calc.rank.minimum_word_count
       /\ calc.op = "from"
          => /\ calc.back.rank_id.role_id = calc.rank.rank_id.role_id
             /\ calc.back.minimum_word_count = calc.rank.minimum_word_count

\* A rank of one guild was found in another guild that has a role of its role
\* id and a second role, and made a Rank again.
C24_Witness ==
    /\ calc.op = "from"
    /\ calc.rank.rank_id.guild_id # calc.guild.id
    /\ Cardinality(calc.guild.roles) = 2
    /\ calc.rank.minimum_word_count > 0

\* A rank was not found in a guild that has other roles.
C24_WitnessNone ==
    /\ calc.op = "to_rank"
    /\ ~calc.out.some
    /\ calc.guild.roles # {}

\* The rows of the guild of the commands.
HomeRows == {row \in store : row.guild_id = Home}

\* C27: however two set_rank commands on a guild interleave, rank_table
\* never has two rows of the guild with the same minimum_word_count, and no
\* load of the guild fails with the error of add_rank.
C27_NoDuplicateCounts ==
    /\ \A a, b \in HomeRows : a.minimum_word_count = b.minimum_word_count => a = b
    /\ \A p \in Callers : last[p].op = "load" => last[p].res = "ok"

\* The two halves of C27 apart.
NoTwoRowsOfACount ==
    \A a, b \in HomeRows : a.minimum_word_count = b.minimum_word_count => a = b

LoadNeverConflicts ==
    \A p \in Callers : last[p].op = "load" => last[p].res = "ok"

\* C28: when add_rank returns its error inside set_rank the command ends
\* without a save: it has issued no statement on rank_table; a save is
\* reached only by a RankList the rank was added to.
C28_ConflictSkipsSave ==
    \A p \in Callers :
        /\ (last[p].op = "add_rank" /\ last[p].res # "ok")
           => /\ pc[p] = "done"
              /\ cursor[p] = NoCursor
              /\ store0[p] = {}
        /\ (pc[p] = "saving" \/ cursor[p] # NoCursor)
           => /\ last[p].op = "save"
              /\ origin[p].how = "edited"
              /\ last[p].before = ranks[p]
              /\ ranks[p].rank_set # {}

\* add_rank returned its error inside set_rank while rank_table has rows.
C28_Witness ==
    \E p \in Callers :
        /\ last[p].op = "add_rank"
        /\ last[p].res = "conflict"
        /\ HomeRows # {}

\* C30: set_rank and list_ranks do not panic, a rank in rank_table whose role
\* is not in the guild any more notwithstanding.
C30_CommandsNeverPanic ==
    \A p \in Callers : last[p].op \in {"add_rank", "list_ranks"} => last[p].res # "panic"

\* The two commands of C30 apart.
SetRankNeverPanics ==
    \A p \in Callers : last[p].op = "add_rank" => last[p].res # "panic"

ListRanksNeverPanics ==
    \A p \in Callers : last[p].op = "list_ranks" => last[p].res # "panic"

\* C29: the parser never panics: for every text, one with a sign and a number
\* past i32::MAX included, it returns a value or a format error.
C29_ParseNeverPanics ==
    calc.op = "from_str" => calc.out.res \in {"ok", "format_error"}

\* What the parser does keep: it panics on no text but a sign followed by a
\* number in i32::MAX + 1 .. u32::MAX.
ParsePanicsOnlyPastI32 ==
    (calc.op = "from_str" /\ calc.out.res = "panic")
    => /\ Signed(calc.text)
       /\ ValueOf(calc.text) > I32Max
       /\ ValueOf(calc.text) \in U32

\* The rank of the INSERT that save of caller p has issued last.
LastUpserted(p) == ranks[p].rank_order[cursor[p].upserts]

\* C31: for every active rank, whatever its minimum_word_count in the u32
\* range, the count that save writes to rank_table is not negative and is
\* equal to the rank's minimum_word_count: the conversion to the i32 column
\* does not wrap.
C31_SaveWritesCountUnwrapped ==
    \A p \in Callers :
      (pc[p] = "saving" /\ cursor[p].upserts > 0 /\ cursor[p].deleted = {})
      => \A row \in RowsOf(store, LastUpserted(p)) :
              /\ row.minimum_word_count >= 0
              /\ row.minimum_word_count = LastUpserted(p).minimum_word_count

\* What save does keep: the count written is the word count wrapped into
\* i32, negative exactly for a word count past i32::MAX, and the conversion
\* of the row back to a Rank gives the word count again.
SaveWritesCountWrapped ==
    \A p \in Callers :
      (pc[p] = "saving" /\ cursor[p].upserts > 0 /\ cursor[p].deleted = {})
      => \A row \in RowsOf(store, LastUpserted(p)) :
              /\ row.minimum_word_count = wrapping_i32(LastUpserted(p).minimum_word_count)
              /\ row.minimum_word_count < 0 <=> LastUpserted(p).minimum_word_count > I32Max
              /\ from_db(row).minimum_word_count = LastUpserted(p).minimum_word_count

====
